---- MODULE Spec2Model ----
(***************************************************************************)
(* fronius-bridge: the bounded outbound queue of MqttClient (publish, the  *)
(* consumer thread run(), the mosquitto connect/disconnect callbacks, the  *)
(* destructor) and ModbusMaster: the inverter's notifications, the poll    *)
(* tick of runLoop with the three update functions and their commits under *)
(* cbMutex_, the interval wait, the readers getValues/getJsonDump, the     *)
(* destructor, and the two earlier run loops: the one that invokes its     *)
(* callbacks under cbMutex_ and the one that requests shutdown when a      *)
(* callback throws.                                                        *)
(***************************************************************************)
EXTENDS Integers, Sequences, FiniteSets, TLC

\* ---------------------------------------------------------------- bounds
\* Largest magnitude of the powers (in ticks) given to the efficiency.
MaxPower == 5

\* Largest configured capacity cfg_.queueSize explored (1..MaxQueueSize).
MaxQueueSize == 2
\* Number of MqttClient::publish calls explored; messages are numbered in
\* enqueue order 1..MaxMsgs.
MaxMsgs == 4
\* Number of distinct register readings the inverter can return.
MaxReading == 2

\* ---------------------------------------------------------------- state
VARIABLES
  queueSize,      \* cfg_.queueSize
  queue_,         \* MqttClient::queue_ (std::queue<std::string>), head first
  droppedCount_,  \* MqttClient::droppedCount_
  connected_,     \* MqttClient::connected_ (atomic flag written by mosquitto)
  running,        \* handler_.isRunning()
  mutex_,         \* MqttClient::mutex_: "free" or "worker"
  pc,             \* position of the consumer thread inside run()
  payload,        \* run(): local copy of queue_.front() (0: none yet)
  rc,             \* run(): result of the last mosquitto_publish call
  nextMsg,        \* number of the next message handed to publish
  delivered,      \* history: payloads for which mosquitto_publish succeeded
  dtor,           \* ~MqttClient: "alive", "joining" (after notify_all), "joined"
  \* ---- ModbusMaster
  modbusConnected, \* ModbusMaster::connected_
  ppc,            \* position of the worker thread inside runLoop()
  entry,          \* runLoop: index into entries (1 device, 2 values, 3 events)
  result,         \* runLoop: result of e.update() (TRUE: has value)
  json,           \* runLoop: local copy of the document to dispatch
  regs,           \* the reading fetched by fetchInverterRegisters (0: none)
  getterIdx,      \* updateValuesAndJson: index of the next getter
  newValues,      \* updateValuesAndJson: local Values values{}
  newEvents,      \* updateEventsAndJson: local Events newEvents
  newDevice,      \* updateDeviceAndJson: local Device newDevice
  values_,        \* ModbusMaster::values_
  jsonValues_,    \* ModbusMaster::jsonValues_
  valuesAtStart,  \* history: <<values_, jsonValues_>> when the update began
  deviceUpdated,  \* ModbusMaster::deviceUpdated
  device_,        \* ModbusMaster::device_
  jsonDevice_,    \* ModbusMaster::jsonDevice_
  events_,        \* ModbusMaster::events_
  jsonEvents_,    \* ModbusMaster::jsonEvents_
  lastEventsHash_, \* ModbusMaster::lastEventsHash_ (std::optional: << >>
                  \* without a value, <<h>> with the value h)
  callbacks,      \* channels whose callback is registered
  cbMutex_,       \* ModbusMaster::cbMutex_: "free", "poller" or "reader"
  outcome,        \* history: per entry, how its update ended in this tick
  sent,           \* history: per entry, the document its callback got in
                  \* this tick (NoDoc: not invoked)
  deviceSent,     \* history: the device callback was invoked since the
                  \* inverter's last connect or disconnect notification
  notice,         \* history: the inverter's last notification and the
                  \* number of triggerReconnect calls its handler made
  staleResult,    \* history: a connect notification arrived after the
                  \* update failed and before runLoop tested its result
  eventsLogged,   \* history: this tick's events update emitted the
                  \* "Inverter reported events" log line
  mdtor,          \* ~ModbusMaster: "alive", "joining" (after notify_all),
                  \* "joined"
  availabilityCallback_, \* ModbusMaster::availabilityCallback_ is set
  available       \* history: the last argument availabilityCallback_ was
                  \* called with ("none": never called)

mqttVars == <<queueSize, queue_, droppedCount_, connected_, mutex_,
              pc, payload, rc, nextMsg, delivered, dtor>>

\* The committed snapshots: record and document of each channel.
snapshots == <<values_, jsonValues_, events_, jsonEvents_, device_,
               jsonDevice_>>

\* The locals of the update functions.
updLocals == <<regs, getterIdx, newValues, newEvents, newDevice>>

\* The history of updates and callback invocations.
tickLog == <<outcome, sent, deviceSent, staleResult, eventsLogged>>

\* The availability slot and what it was last told.
availVars == <<availabilityCallback_, available>>

pollerVars == <<modbusConnected, ppc, entry, result, json, updLocals,
                snapshots, valuesAtStart, deviceUpdated, lastEventsHash_,
                callbacks, cbMutex_, tickLog, notice, mdtor, availVars>>

vars == <<mqttVars, pollerVars, running>>

Range(s) == {s[i] : i \in 1..Len(s)}

\* ------------------------------------------------------- MqttClient::publish
\* A publish that never evicts (the queue grows past its capacity).
PushNoEvict(q, cap, m) == Append(q, m)

\* A publish that evicts the newest element instead of the oldest.
PushDropNewest(q, cap, m) ==
  IF Len(q) >= cap THEN Append(SubSeq(q, 1, Len(q) - 1), m) ELSE Append(q, m)

\* A publish that makes room when full and pushes only otherwise.
PushOrEvict(q, cap, m) == IF Len(q) >= cap THEN Tail(q) ELSE Append(q, m)

\* queue_ after lines 76-81: drop the oldest element when full, then push.
PushDropOldest(q, cap, m) ==
  IF Len(q) >= cap THEN Append(Tail(q), m) ELSE Append(q, m)

\* droppedCount_ after lines 76-79.
CountDrop(q, cap, d) == IF Len(q) >= cap THEN d + 1 ELSE d

\* cv_.notify_one(): the consumer is the only thread that waits on cv_; a
\* notification wakes it if it is blocked and is lost otherwise.
NotifyOne(p) ==
  CASE p = "sleep1" -> "wake1"
    [] p = "sleep2" -> "wake2"
    [] OTHER -> p

\* cv_.notify_all(): same effect, there is a single waiter.
NotifyAll(p) == NotifyOne(p)

\* publish runs wholly under mutex_ (line 74), so it is one step that needs
\* the mutex to be free.
Publish ==
  /\ dtor # "joined"
  /\ nextMsg <= MaxMsgs
  /\ mutex_ = "free"
  /\ queue_' = PushDropOldest(queue_, queueSize, nextMsg)
  /\ droppedCount_' = CountDrop(queue_, queueSize, droppedCount_)
  /\ pc' = NotifyOne(pc)
  /\ nextMsg' = nextMsg + 1
  /\ UNCHANGED <<queueSize, connected_, running, mutex_, payload, rc,
                 delivered, dtor>>
  /\ UNCHANGED pollerVars

\* ------------------------------------------------- mosquitto callbacks
\* onConnect(rc): on rc = 0 sets the flag and notifies, without the mutex.
OnConnect ==
  /\ dtor # "joined"
  /\ \E r \in {0, 1} :
       IF r = 0
         THEN /\ connected_' = TRUE
              /\ pc' = NotifyOne(pc)
         ELSE UNCHANGED <<connected_, pc>>
  /\ UNCHANGED <<queueSize, queue_, droppedCount_, running, mutex_, payload,
                 rc, nextMsg, delivered, dtor>>
  /\ UNCHANGED pollerVars

\* onDisconnect: clears the flag; no notification.
OnDisconnect ==
  /\ dtor # "joined"
  /\ connected_
  /\ connected_' = FALSE
  /\ UNCHANGED <<queueSize, queue_, droppedCount_, running, mutex_, pc,
                 payload, rc, nextMsg, delivered, dtor>>
  /\ UNCHANGED pollerVars

\* ------------------------------------------------------- shutdown
\* The signal handler clears the running flag.
Shutdown ==
  /\ running
  /\ running' = FALSE
  /\ UNCHANGED <<mqttVars, pollerVars>>

\* ~MqttClient line 59: main leaves handler.wait() after shutdown and the
\* destructor broadcasts on cv_ (without the mutex).
DtorNotifyAll ==
  /\ ~running
  /\ dtor = "alive"
  /\ dtor' = "joining"
  /\ pc' = NotifyAll(pc)
  /\ UNCHANGED <<queueSize, queue_, droppedCount_, connected_, running,
                 mutex_, payload, rc, nextMsg, delivered>>
  /\ UNCHANGED pollerVars

\* ~MqttClient lines 60-61: worker_.join() returns once run() has returned.
DtorJoin ==
  /\ dtor = "joining"
  /\ pc = "done"
  /\ dtor' = "joined"
  /\ UNCHANGED <<queueSize, queue_, droppedCount_, connected_, running,
                 mutex_, pc, payload, rc, nextMsg, delivered>>
  /\ UNCHANGED pollerVars

\* ------------------------------------------------------- MqttClient::run
\* Everything the consumer leaves alone in a step that touches pc only.
WorkerKeeps ==
  /\ UNCHANGED <<queueSize, queue_, droppedCount_, connected_, running,
                 payload, rc, nextMsg, delivered, dtor>>
  /\ UNCHANGED pollerVars

\* line 101: while (handler_.isRunning())
LoopTest ==
  /\ pc = "loop"
  /\ pc' = IF running THEN "lock" ELSE "done"
  /\ UNCHANGED mutex_
  /\ WorkerKeeps

\* line 102: std::unique_lock<std::mutex> lock(mutex_)
Lock ==
  /\ pc = "lock"
  /\ mutex_ = "free"
  /\ mutex_' = "worker"
  /\ pc' = "wait1"
  /\ WorkerKeeps

\* line 105: the predicate of the first wait, evaluated under the mutex.
Wait1Pred ==
  /\ pc = "wait1"
  /\ pc' = IF connected_ \/ ~running THEN "chk1" ELSE "block1"
  /\ UNCHANGED mutex_
  /\ WorkerKeeps

\* line 105: predicate was false; wait() releases the mutex and blocks.
Wait1Block ==
  /\ pc = "block1"
  /\ mutex_' = "free"
  /\ pc' = "sleep1"
  /\ WorkerKeeps

\* line 105: a condition variable may wake without a notification.
Wait1Spurious ==
  /\ pc = "sleep1"
  /\ pc' = "wake1"
  /\ UNCHANGED mutex_
  /\ WorkerKeeps

\* line 105: woken; wait() re-acquires the mutex and re-tests the predicate.
Wait1Relock ==
  /\ pc = "wake1"
  /\ mutex_ = "free"
  /\ mutex_' = "worker"
  /\ pc' = "wait1"
  /\ WorkerKeeps

\* lines 106-107: if (!handler_.isRunning()) break;  (the lock is released)
Check1 ==
  /\ pc = "chk1"
  /\ IF running
       THEN pc' = "wait2" /\ UNCHANGED mutex_
       ELSE pc' = "done" /\ mutex_' = "free"
  /\ WorkerKeeps

\* line 110: the predicate of the second wait.
Wait2Pred ==
  /\ pc = "wait2"
  /\ pc' = IF queue_ # << >> \/ ~running THEN "chk2" ELSE "block2"
  /\ UNCHANGED mutex_
  /\ WorkerKeeps

Wait2Block ==
  /\ pc = "block2"
  /\ mutex_' = "free"
  /\ pc' = "sleep2"
  /\ WorkerKeeps

Wait2Spurious ==
  /\ pc = "sleep2"
  /\ pc' = "wake2"
  /\ UNCHANGED mutex_
  /\ WorkerKeeps

Wait2Relock ==
  /\ pc = "wake2"
  /\ mutex_ = "free"
  /\ mutex_' = "worker"
  /\ pc' = "wait2"
  /\ WorkerKeeps

\* lines 111-112
Check2 ==
  /\ pc = "chk2"
  /\ IF running
       THEN pc' = "drain" /\ UNCHANGED mutex_
       ELSE pc' = "done" /\ mutex_' = "free"
  /\ WorkerKeeps

\* The drain loop condition of line 115.
DrainCond == queue_ # << >> /\ connected_ /\ running

\* A consumer that keeps the mutex across the publish call.
MutexHeldDuringPublish == "worker"

\* mutex_ while mosquitto_publish is in progress (line 118: lock.unlock()).
MutexDuringPublish == "free"

\* A consumer that takes the newest element instead of the head.
Back(q) == q[Len(q)]

\* line 116: queue_.front()
Front(q) == Head(q)

\* lines 115-118: loop test; when it holds, copy the head and unlock.
DrainTest ==
  /\ pc = "drain"
  /\ IF DrainCond
       THEN /\ payload' = Front(queue_)
            /\ mutex_' = MutexDuringPublish
            /\ pc' = "publishing"
       ELSE /\ pc' = "reset"
            /\ UNCHANGED <<payload, mutex_>>
  /\ UNCHANGED <<queueSize, queue_, droppedCount_, connected_, running, rc,
                 nextMsg, delivered, dtor>>
  /\ UNCHANGED pollerVars

\* lines 119-120: mosquitto_publish returns success or an error code.
SinkPublish ==
  /\ pc = "publishing"
  /\ \E r \in {"success", "fail"} :
       /\ rc' = r
       /\ delivered' = IF r = "success" THEN Append(delivered, payload)
                                        ELSE delivered
  /\ pc' = "relock"
  /\ UNCHANGED <<queueSize, queue_, droppedCount_, connected_, running,
                 mutex_, payload, nextMsg, dtor>>
  /\ UNCHANGED pollerVars

\* A consumer that pops whatever the publish call returned.
AlwaysPop(q, r) == Tail(q)

\* queue_ after lines 123-130, given the result of the publish call.
AfterPublish(q, r) == IF r = "success" THEN Tail(q) ELSE q

\* lines 121-130: lock.lock(); pop on success, break on failure.
Relock ==
  /\ pc = "relock"
  /\ mutex_ = "free"
  /\ mutex_' = "worker"
  /\ queue_' = AfterPublish(queue_, rc)
  /\ pc' = IF rc = "success" THEN "drain" ELSE "reset"
  /\ UNCHANGED <<queueSize, droppedCount_, connected_, running, payload, rc,
                 nextMsg, delivered, dtor>>
  /\ UNCHANGED pollerVars

\* A consumer that resets the counter at the end of every cycle.
ResetAlways(q, d) == 0

\* droppedCount_ after lines 134-136.
ResetDropped(q, d) == IF q = << >> THEN 0 ELSE d

\* lines 133-137: reset the counter when the queue is empty; the lock goes
\* out of scope at the end of the loop body.
ResetCount ==
  /\ pc = "reset"
  /\ droppedCount_' = ResetDropped(queue_, droppedCount_)
  /\ mutex_' = "free"
  /\ pc' = "loop"
  /\ UNCHANGED <<queueSize, queue_, connected_, running, payload, rc,
                 nextMsg, delivered, dtor>>
  /\ UNCHANGED pollerVars

Worker ==
  \/ LoopTest \/ Lock
  \/ Wait1Pred \/ Wait1Block \/ Wait1Relock \/ Check1
  \/ Wait2Pred \/ Wait2Block \/ Wait2Relock \/ Check2
  \/ DrainTest \/ SinkPublish \/ Relock \/ ResetCount

\* ======================================================= ModbusMaster
Channels == <<"device", "values", "events">>

\* The readings fetchInverterRegisters can return, and what the getters
\* return for a reading: reading 1 is a night reading (no DC power).
Readings == 1..MaxReading
RegAcEnergy(r) == 1000 * r
RegAcPower(r) == 45 * (r - 1)
RegDcPower(r) == 50 * (r - 1)

\* lines 489-493: efficiency as the exact ratio <<numerator, denominator>>;
\* the register values are integral, so |dcPower| > 1e-12 is dcPower # 0.
Efficiency(ac, dc) == IF dc # 0 THEN <<ac * 100, dc>> ELSE <<0, 1>>

\* line 414: Values values{}
DefaultValues ==
  [time |-> 0, acEnergy |-> 0, acPowerActive |-> 0, dcPower |-> 0,
   efficiency |-> <<0, 1>>]

\* The getters of lines 422-482 in call order (one per quantity kind).
Getters == <<"acEnergy", "acPowerActive", "dcPower">>

\* The value a successful getter stores into the local record.
GetterValue(g, r) ==
  CASE g = "acEnergy" -> RegAcEnergy(r) \div 1000
    [] g = "acPowerActive" -> RegAcPower(r)
    [] g = "dcPower" -> RegDcPower(r)

\* lines 495-551: the values document built from the local record.
ValuesJson(v) ==
  [time |-> v.time, ac_energy |-> v.acEnergy,
   ac_power_active |-> v.acPowerActive, dc_power |-> v.dcPower,
   efficiency |-> v.efficiency]

\* The record a complete update for reading r commits.
ValuesOf(r) ==
  [time |-> r, acEnergy |-> RegAcEnergy(r) \div 1000,
   acPowerActive |-> RegAcPower(r), dcPower |-> RegDcPower(r),
   efficiency |-> Efficiency(RegAcPower(r), RegDcPower(r))]

\* The event lists getEvents can return (event codes).
EventLists == {<< >>, <<1>>, <<1, 2>>}

\* lines 581-587: std::hash of the joined event strings.
RECURSIVE EventsHash(_)
EventsHash(l) ==
  IF l = << >> THEN 7 ELSE (31 * EventsHash(Tail(l)) + Head(l)) % 1009

\* A log that reports every non-empty event list.
LogsNonEmpty(l, h) == l # << >>

\* lines 580-590: the warn line "Inverter reported events" is emitted for a
\* non-empty list whose hash differs from the stored one (or none is stored).
LogsEvents(l, h) == l # << >> /\ h # <<EventsHash(l)>>

\* lines 580-595: lastEventsHash_ after a successful read of the events.
HashAfter(l, h) == IF l # << >> THEN <<EventsHash(l)>> ELSE << >>

\* A default-constructed nlohmann::json member (jsonValues_, jsonEvents_,
\* jsonDevice_): null.
JsonNull == [null |-> TRUE]

\* The local std::string json of runLoop outside its scope, and a callback
\* that was not invoked.
NoDoc == [none |-> TRUE]

\* line 568 (Events newEvents) and the Events events_ member.
DefaultEvents == [activeCode |-> 0, events |-> << >>]

\* lines 571-574: the record the event getters fill for an event list.
EventsOf(l) == [activeCode |-> Len(l), events |-> l]

\* lines 597-605: the events document built from the local record.
EventsJson(e) == [active_code |-> e.activeCode, events |-> e.events]

\* line 628 (Device newDevice) and the Device device_ member.
DefaultDevice == [manufacturer |-> "", serialNumber |-> 0]

\* lines 630-653: the record the identity getters fill.
DeviceInfo == [manufacturer |-> "Fronius", serialNumber |-> 1]

\* lines 661-675: the device document built from the local record.
DeviceJson(d) ==
  [manufacturer |-> d.manufacturer, serial_number |-> d.serialNumber]

\* The per-tick history before any entry has run.
NoLog == [e \in 1..3 |-> "none"]

\* The per-tick dispatch history before any callback was invoked.
NotSent == [e \in 1..3 |-> NoDoc]

\* The notification history before any notification.
NoNotice == [kind |-> "none", valid |-> FALSE, reconnects |-> 0]

\* A commit that assigns document and record without taking cbMutex_.
CommitNoLock == "free"

\* lines 554, 611, 681: std::lock_guard lock(cbMutex_) of a commit block.
CommitLock == "poller"

\* The closing brace of a commit block releases what the block locked.
Release(m) == IF m = "poller" THEN "free" ELSE m

\* What a step of the run loop, a notification or a reader leaves alone: the
\* queue, the shutdown flag, the position of ~ModbusMaster and the
\* availability.
PollerKeeps == UNCHANGED <<mqttVars, running, mdtor, availVars>>

\* lines 233-234, 244-245, 277-279: if (availabilityCallback_) call it with
\* "connected" or "disconnected" after connected_.
Notified(registered, c, last) ==
  IF registered THEN (IF c THEN "connected" ELSE "disconnected") ELSE last

\* ------------------------------------------------ inverter callbacks
\* lines 222-235: connect notification; connected_ follows validateDevice().
GwConnect ==
  /\ ppc # "done"
  /\ \E valid \in BOOLEAN :
       /\ modbusConnected' = valid
       /\ notice' = [kind |-> "connect", valid |-> valid, reconnects |-> 0]
  /\ available' = Notified(availabilityCallback_, modbusConnected', available)
  /\ deviceSent' = FALSE
  /\ staleResult' = (ppc = "result" /\ ~result)
  /\ UNCHANGED <<ppc, entry, result, json, updLocals, snapshots,
                 valuesAtStart, deviceUpdated, lastEventsHash_, callbacks,
                 cbMutex_, outcome, sent, eventsLogged>>
  /\ UNCHANGED <<mqttVars, running, mdtor, availabilityCallback_>>

\* lines 237-246: disconnect notification.
GwDisconnect ==
  /\ ppc # "done"
  /\ modbusConnected
  /\ modbusConnected' = FALSE
  /\ notice' = [kind |-> "disconnect", valid |-> FALSE, reconnects |-> 0]
  /\ available' = Notified(availabilityCallback_, modbusConnected', available)
  /\ deviceSent' = FALSE /\ UNCHANGED staleResult
  /\ UNCHANGED <<ppc, entry, result, json, updLocals, snapshots,
                 valuesAtStart, deviceUpdated, lastEventsHash_, callbacks,
                 cbMutex_, outcome, sent, eventsLogged>>
  /\ UNCHANGED <<mqttVars, running, mdtor, availabilityCallback_>>

\* An error handler that never asks the inverter to reconnect.
ReconnectsNever(sev) == 0

\* lines 248-266: the triggerReconnect calls of the error handler.
ReconnectsFor(sev) == IF sev = "TRANSIENT" THEN 1 ELSE 0

\* lines 248-266: error notification by severity.
GwError ==
  /\ ppc # "done"
  /\ \E sev \in {"FATAL", "TRANSIENT", "SHUTDOWN"} :
       /\ IF sev = "FATAL"
            THEN running' = FALSE /\ UNCHANGED modbusConnected
            ELSE modbusConnected' = FALSE /\ UNCHANGED running
       /\ notice' = [kind |-> sev, valid |-> FALSE,
                     reconnects |-> ReconnectsFor(sev)]
  /\ UNCHANGED staleResult
  /\ UNCHANGED <<ppc, entry, result, json, updLocals, snapshots,
                 valuesAtStart, deviceUpdated, lastEventsHash_, callbacks,
                 cbMutex_, outcome, sent, deviceSent, eventsLogged>>
  /\ UNCHANGED <<mqttVars, mdtor, availVars>>

\* lines 341-354: main registers a channel callback under cbMutex_.
SetCallback ==
  /\ cbMutex_ = "free"
  /\ \E ch \in {"device", "values", "events"} \ callbacks :
       callbacks' = callbacks \cup {ch}
  /\ UNCHANGED <<modbusConnected, ppc, entry, result, json, updLocals,
                 snapshots, valuesAtStart, deviceUpdated, lastEventsHash_,
                 cbMutex_, tickLog, notice>>
  /\ PollerKeeps

\* ------------------------------------------- getJsonDump / getValues
\* lines 362-370: a reader thread enters getJsonDump or getValues and takes
\* cbMutex_.
ReaderLock ==
  /\ cbMutex_ = "free"
  /\ cbMutex_' = "reader"
  /\ UNCHANGED <<modbusConnected, ppc, entry, result, json, updLocals,
                 snapshots, valuesAtStart, deviceUpdated, lastEventsHash_,
                 callbacks, tickLog, notice>>
  /\ PollerKeeps

\* lines 362-370: the reader has copied values_ or dumped jsonValues_ and
\* returns, releasing cbMutex_.
ReaderUnlock ==
  /\ cbMutex_ = "reader"
  /\ cbMutex_' = "free"
  /\ UNCHANGED <<modbusConnected, ppc, entry, result, json, updLocals,
                 snapshots, valuesAtStart, deviceUpdated, lastEventsHash_,
                 callbacks, tickLog, notice>>
  /\ PollerKeeps

\* ------------------------------------------------ ModbusMaster::runLoop
\* A run loop that never tests the shutdown flag.
LoopAlways(r) == TRUE

\* line 289: the loop condition handler_.isRunning().
LoopCond(r) == r

\* line 289: while (handler_.isRunning())
PLoopTest ==
  /\ ppc = "loop"
  /\ ppc' = IF LoopCond(running) THEN "tick" ELSE "done"
  /\ UNCHANGED <<modbusConnected, entry, result, json, updLocals, snapshots,
                 valuesAtStart, deviceUpdated, lastEventsHash_, callbacks,
                 cbMutex_, tickLog, notice>>
  /\ PollerKeeps

\* A run loop that polls whatever the connection state.
TickAlways(c) == TRUE

\* line 291: the tick runs if connected_.load() reads true.
TickGate(c) == c

\* line 291: if (connected_.load()) start with the first entry.
PTickTest ==
  /\ ppc = "tick"
  /\ IF TickGate(modbusConnected)
       THEN ppc' = "update" /\ entry' = 1
       ELSE ppc' = "wait" /\ UNCHANGED entry
  /\ UNCHANGED <<modbusConnected, result, json, updLocals, snapshots,
                 valuesAtStart, deviceUpdated, lastEventsHash_, callbacks,
                 cbMutex_, tickLog, notice>>
  /\ PollerKeeps

\* An update that goes on although shutdown was requested.
ShutdownIgnored(r) == FALSE

\* lines 404, 564, 620: if (!handler_.isRunning()) return the error
\* "Shutdown in progress".
ShutdownSeen(r) == ~r

\* An update that ignores the one-shot flag.
DeviceNeverCached(flag) == FALSE

\* lines 625-626: if (deviceUpdated.load()) return {};
DeviceCached(flag) == flag

\* lines 619-659: updateDeviceAndJson up to the end of the getters: the
\* shutdown test, the one-shot flag, then the identity getters.
UpdateDevice ==
  /\ ppc = "update" /\ entry = 1
  /\ IF ShutdownSeen(running)
       THEN /\ result' = FALSE /\ ppc' = "result"
            /\ outcome' = [outcome EXCEPT ![1] = "interrupted"]
            /\ UNCHANGED newDevice
       ELSE IF DeviceCached(deviceUpdated)
         THEN /\ result' = TRUE /\ ppc' = "result"
              /\ outcome' = [outcome EXCEPT ![1] = "cached"]
              /\ UNCHANGED newDevice
         ELSE \/ /\ result' = FALSE /\ ppc' = "result"
                 /\ outcome' = [outcome EXCEPT ![1] = "failed"]
                 /\ UNCHANGED newDevice
              \/ /\ newDevice' = DeviceInfo
                 /\ ppc' = "commit"
                 /\ UNCHANGED <<result, outcome>>
  /\ UNCHANGED <<modbusConnected, entry, json, regs, getterIdx, newValues,
                 newEvents, snapshots, valuesAtStart, deviceUpdated,
                 lastEventsHash_, callbacks, cbMutex_, sent, deviceSent,
                 eventsLogged, notice>>
  /\ UNCHANGED staleResult
  /\ PollerKeeps

\* lines 661-682: build the document, lock cbMutex_, jsonDevice_ = newJson.
DeviceCommit ==
  /\ ppc = "commit" /\ entry = 1
  /\ cbMutex_ = "free"
  /\ cbMutex_' = CommitLock
  /\ jsonDevice_' = DeviceJson(newDevice)
  /\ ppc' = "commitRecord"
  /\ UNCHANGED <<modbusConnected, entry, result, json, updLocals, values_,
                 jsonValues_, events_, jsonEvents_, device_, valuesAtStart,
                 deviceUpdated, lastEventsHash_, callbacks, tickLog, notice>>
  /\ PollerKeeps

\* lines 683-688: device_ = newDevice, unlock, set the one-shot flag, return.
DeviceCommitRecord ==
  /\ ppc = "commitRecord" /\ entry = 1
  /\ device_' = newDevice
  /\ cbMutex_' = Release(cbMutex_)
  /\ deviceUpdated' = TRUE
  /\ result' = TRUE
  /\ outcome' = [outcome EXCEPT ![1] = "fresh"]
  /\ ppc' = "result"
  /\ UNCHANGED <<modbusConnected, entry, json, updLocals, values_,
                 jsonValues_, events_, jsonEvents_, jsonDevice_,
                 valuesAtStart, lastEventsHash_, callbacks, sent, deviceSent,
                 staleResult, eventsLogged, notice>>
  /\ PollerKeeps

\* lines 403-418: shutdown test, register fetch, fresh local record.
ValuesBegin ==
  /\ ppc = "update" /\ entry = 2
  /\ valuesAtStart' = <<values_, jsonValues_>>
  /\ IF ShutdownSeen(running)
       THEN /\ result' = FALSE /\ ppc' = "result"
            /\ outcome' = [outcome EXCEPT ![2] = "interrupted"]
            /\ UNCHANGED <<regs, getterIdx, newValues>>
       ELSE \/ /\ result' = FALSE /\ ppc' = "result"
               /\ outcome' = [outcome EXCEPT ![2] = "failed"]
               /\ UNCHANGED <<regs, getterIdx, newValues>>
            \/ \E r \in Readings :
                 /\ regs' = r
                 /\ newValues' = [DefaultValues EXCEPT !.time = r]
                 /\ getterIdx' = 1
                 /\ ppc' = "getters"
                 /\ UNCHANGED <<result, outcome>>
  /\ UNCHANGED <<modbusConnected, entry, json, newEvents, newDevice,
                 snapshots, deviceUpdated, lastEventsHash_, callbacks,
                 cbMutex_, sent, deviceSent,
                 eventsLogged, notice>>
  /\ UNCHANGED staleResult
  /\ PollerKeeps

\* A getter loop that stores each quantity straight into values_.
ValuesGetterInPlace ==
  /\ ppc = "getters"
  /\ \/ /\ result' = FALSE /\ ppc' = "result"
        /\ outcome' = [outcome EXCEPT ![2] = "failed"]
        /\ UNCHANGED <<getterIdx, newValues, values_>>
     \/ /\ newValues' = [newValues EXCEPT ![Getters[getterIdx]] =
                           GetterValue(Getters[getterIdx], regs)]
        /\ values_' = [values_ EXCEPT ![Getters[getterIdx]] =
                           GetterValue(Getters[getterIdx], regs)]
        /\ getterIdx' = getterIdx + 1
        /\ ppc' = IF getterIdx = Len(Getters) THEN "commit" ELSE "getters"
        /\ UNCHANGED <<result, outcome>>
  /\ UNCHANGED <<modbusConnected, entry, json, regs, newEvents, newDevice,
                 jsonValues_, events_, jsonEvents_, device_, jsonDevice_,
                 valuesAtStart, deviceUpdated, lastEventsHash_, callbacks,
                 cbMutex_, sent, deviceSent,
                 eventsLogged, notice>>
  /\ UNCHANGED staleResult
  /\ PollerKeeps

\* lines 420-487: one getter; getOrThrow either stores the quantity into the
\* local record or throws, and the catch returns the error.
ValuesGetter ==
  /\ ppc = "getters"
  /\ \/ /\ result' = FALSE /\ ppc' = "result"
        /\ outcome' = [outcome EXCEPT ![2] = "failed"]
        /\ UNCHANGED <<getterIdx, newValues>>
     \/ /\ newValues' = [newValues EXCEPT ![Getters[getterIdx]] =
                           GetterValue(Getters[getterIdx], regs)]
        /\ getterIdx' = getterIdx + 1
        /\ ppc' = IF getterIdx = Len(Getters) THEN "commit" ELSE "getters"
        /\ UNCHANGED <<result, outcome>>
  /\ UNCHANGED <<modbusConnected, entry, json, regs, newEvents, newDevice,
                 snapshots, valuesAtStart, deviceUpdated, lastEventsHash_,
                 callbacks, cbMutex_, sent, deviceSent,
                 eventsLogged, notice>>
  /\ UNCHANGED staleResult
  /\ PollerKeeps

\* lines 489-557: efficiency, the document, lock cbMutex_,
\* jsonValues_ = newJson.
ValuesCommit ==
  /\ ppc = "commit" /\ entry = 2
  /\ cbMutex_ = "free"
  /\ cbMutex_' = CommitLock
  /\ LET v == [newValues EXCEPT !.efficiency =
                 Efficiency(newValues.acPowerActive, newValues.dcPower)]
     IN /\ newValues' = v
        /\ jsonValues_' = ValuesJson(v)
  /\ ppc' = "commitRecord"
  /\ UNCHANGED <<modbusConnected, entry, result, json, regs, getterIdx,
                 newEvents, newDevice, values_, events_, jsonEvents_,
                 device_, jsonDevice_, valuesAtStart, deviceUpdated,
                 lastEventsHash_, callbacks, tickLog, notice>>
  /\ PollerKeeps

\* lines 557-560: values_ = values, unlock, return.
ValuesCommitRecord ==
  /\ ppc = "commitRecord" /\ entry = 2
  /\ values_' = newValues
  /\ cbMutex_' = Release(cbMutex_)
  /\ result' = TRUE
  /\ outcome' = [outcome EXCEPT ![2] = "fresh"]
  /\ ppc' = "result"
  /\ UNCHANGED <<modbusConnected, entry, json, updLocals, jsonValues_,
                 events_, jsonEvents_, device_, jsonDevice_, valuesAtStart,
                 deviceUpdated, lastEventsHash_, callbacks, sent, deviceSent,
                 staleResult, eventsLogged, notice>>
  /\ PollerKeeps

\* lines 563-595: updateEventsAndJson up to the hash: the shutdown test, the
\* event getters, then lastEventsHash_.
UpdateEvents ==
  /\ ppc = "update" /\ entry = 3
  /\ IF ShutdownSeen(running)
       THEN /\ result' = FALSE /\ ppc' = "result"
            /\ outcome' = [outcome EXCEPT ![3] = "interrupted"]
            /\ UNCHANGED <<newEvents, lastEventsHash_, eventsLogged>>
       ELSE \/ /\ result' = FALSE /\ ppc' = "result"
               /\ outcome' = [outcome EXCEPT ![3] = "failed"]
               /\ UNCHANGED <<newEvents, lastEventsHash_, eventsLogged>>
            \/ \E l \in EventLists :
                 /\ newEvents' = EventsOf(l)
                 /\ eventsLogged' = LogsEvents(l, lastEventsHash_)
                 /\ lastEventsHash_' = HashAfter(l, lastEventsHash_)
                 /\ ppc' = "commit"
                 /\ UNCHANGED <<result, outcome>>
  /\ UNCHANGED staleResult
  /\ UNCHANGED <<modbusConnected, entry, json, regs, getterIdx, newValues,
                 newDevice, snapshots, valuesAtStart, deviceUpdated,
                 callbacks, cbMutex_, sent, deviceSent, notice>>
  /\ PollerKeeps

\* lines 597-612: build the document, lock cbMutex_, jsonEvents_ = newJson.
EventsCommit ==
  /\ ppc = "commit" /\ entry = 3
  /\ cbMutex_ = "free"
  /\ cbMutex_' = CommitLock
  /\ jsonEvents_' = EventsJson(newEvents)
  /\ ppc' = "commitRecord"
  /\ UNCHANGED <<modbusConnected, entry, result, json, updLocals, values_,
                 jsonValues_, events_, device_, jsonDevice_, valuesAtStart,
                 deviceUpdated, lastEventsHash_, callbacks, tickLog, notice>>
  /\ PollerKeeps

\* lines 613-616: events_ = newEvents, unlock, return.
EventsCommitRecord ==
  /\ ppc = "commitRecord" /\ entry = 3
  /\ events_' = newEvents
  /\ cbMutex_' = Release(cbMutex_)
  /\ result' = TRUE
  /\ outcome' = [outcome EXCEPT ![3] = "fresh"]
  /\ ppc' = "result"
  /\ UNCHANGED <<modbusConnected, entry, json, updLocals, values_,
                 jsonValues_, jsonEvents_, device_, jsonDevice_,
                 valuesAtStart, deviceUpdated, lastEventsHash_, callbacks,
                 sent, deviceSent, staleResult, eventsLogged, notice>>
  /\ PollerKeeps

\* nlohmann::json::dump(): the string that serializes a document.
Dump(doc) == [dump |-> doc]

\* The string e.getJson() returns for an entry (lines 299-306).
GetJson(e) ==
  CASE e = 1 -> Dump(jsonDevice_)
    [] e = 2 -> Dump(jsonValues_)
    [] e = 3 -> Dump(jsonEvents_)

\* A run loop that ignores a failed update.
ConnectedKept(res, c) == c

\* A connection state that any successful update restores.
ConnectedRestored(res, c) == res

\* connected_ after the result test of lines 310-313.
ConnectedAfter(res, c) == IF res THEN c ELSE FALSE

\* A run loop that dispatches whether or not the update succeeded.
DispatchAlways(res, registered) == registered

\* A run loop that dispatches the events only when their list changed.
DispatchChanged(res, registered) ==
  res /\ registered /\ (entry = 3 => eventsLogged)

\* lines 310-317: the entry is dispatched when its update succeeded and its
\* callback is registered.
Dispatches(res, registered) == res /\ registered

\* A run loop that returns from the tick at the first failed update.
AbortTick(res, e) == IF res /\ e < 3 THEN "update" ELSE "tickend"

\* lines 308-313, 328: continue goes to the next entry, the end of the
\* array leaves the loop.
AfterEntry(res, e) == IF e < 3 THEN "update" ELSE "tickend"

\* lines 308-323: test the result; on failure demote and go to the next
\* entry; skip an unregistered callback; else copy the document under
\* cbMutex_.  The locals of the update that returned, its result and the
\* history of its start no longer exist after the test.
CheckResult ==
  /\ ppc = "result"
  /\ modbusConnected' = ConnectedAfter(result, modbusConnected)
  /\ IF Dispatches(result, Channels[entry] \in callbacks)
       THEN /\ cbMutex_ = "free"
            /\ json' = GetJson(entry)
            /\ ppc' = "callback"
            /\ UNCHANGED entry
       ELSE /\ UNCHANGED json
            /\ ppc' = AfterEntry(result, entry)
            /\ entry' = IF ppc' = "update" THEN entry + 1 ELSE entry
  /\ regs' = 0 /\ getterIdx' = 1 /\ newValues' = DefaultValues
  /\ newEvents' = DefaultEvents /\ newDevice' = DefaultDevice
  /\ result' = TRUE /\ valuesAtStart' = <<DefaultValues, JsonNull>>
  /\ staleResult' = FALSE
  /\ UNCHANGED <<snapshots, deviceUpdated, lastEventsHash_, callbacks,
                 cbMutex_, outcome, sent, deviceSent, eventsLogged, notice>>
  /\ PollerKeeps

\* A run loop that invokes the callback even after shutdown was requested.
InvokeAlways(r) == TRUE

\* line 326: if (handler_.isRunning())
InvokeGuard(r) == r

\* lines 325-328: invoke the callback outside the lock unless shutting down;
\* the local string goes out of scope at the end of the iteration.
InvokeCallback ==
  /\ ppc = "callback"
  /\ sent' = IF InvokeGuard(running) THEN [sent EXCEPT ![entry] = json]
                                     ELSE sent
  /\ deviceSent' = (deviceSent \/ (InvokeGuard(running) /\ entry = 1))
  /\ json' = NoDoc
  /\ ppc' = AfterEntry(TRUE, entry)
  /\ entry' = IF ppc' = "update" THEN entry + 1 ELSE entry
  /\ UNCHANGED <<modbusConnected, result, updLocals, snapshots,
                 valuesAtStart, deviceUpdated, lastEventsHash_, callbacks,
                 cbMutex_, outcome, staleResult, eventsLogged, notice>>
  /\ PollerKeeps

\* lines 328-330: the for loop and the block of the tick end.
TickEnd ==
  /\ ppc = "tickend"
  /\ ppc' = "wait"
  /\ outcome' = NoLog /\ sent' = NotSent /\ eventsLogged' = FALSE
  /\ UNCHANGED <<deviceSent, staleResult>>
  /\ UNCHANGED <<modbusConnected, entry, result, json, updLocals, snapshots,
                 valuesAtStart, deviceUpdated, lastEventsHash_, callbacks,
                 cbMutex_, notice>>
  /\ PollerKeeps

\* A wait that sleeps for the interval without testing the predicate first.
SleepsAlways(r) == TRUE

\* line 335: the predicate of wait_for is !handler_.isRunning(); the wait
\* sleeps only while it is false.
Sleeps(r) == r

\* lines 332-335: the interval wait takes cbMutex_ and tests the predicate:
\* after shutdown it returns at once, otherwise it releases cbMutex_ and
\* sleeps.
IntervalWait ==
  /\ ppc = "wait"
  /\ cbMutex_ = "free"
  /\ ppc' = IF Sleeps(running) THEN "sleep" ELSE "loop"
  /\ UNCHANGED <<modbusConnected, entry, result, json, updLocals, snapshots,
                 valuesAtStart, deviceUpdated, lastEventsHash_, callbacks,
                 cbMutex_, tickLog, notice>>
  /\ PollerKeeps

\* lines 334-336: the sleep ends when the interval has elapsed or when a
\* notification finds the predicate true; wait_for takes cbMutex_ again and
\* the iteration's end releases it.
IntervalWake ==
  /\ ppc = "sleep"
  /\ cbMutex_ = "free"
  /\ ppc' = "loop"
  /\ UNCHANGED <<modbusConnected, entry, result, json, updLocals, snapshots,
                 valuesAtStart, deviceUpdated, lastEventsHash_, callbacks,
                 cbMutex_, tickLog, notice>>
  /\ PollerKeeps

\* ============================ the earlier ModbusMaster (part_005)
\* The run loop of src/unnamed/part_005 (lines 74-121) polls values and
\* events only and invokes the callbacks inside the lock_guard block; its
\* disconnect callback only logs (the same text as src/src/modbus_master.cpp
\* lines 36-40).  The getters and the commit blocks of its update functions
\* are those modelled above.

\* src/src/modbus_master.cpp lines 36-40: the disconnect notification logs
\* the reconnect delay and stores nothing.
LegacyGwDisconnect ==
  /\ ppc # "done"
  /\ modbusConnected
  /\ notice' = [kind |-> "disconnect", valid |-> FALSE, reconnects |-> 0]
  /\ deviceSent' = FALSE /\ UNCHANGED staleResult
  /\ UNCHANGED <<modbusConnected, ppc, entry, result, json, updLocals,
                 snapshots, valuesAtStart, deviceUpdated, lastEventsHash_,
                 callbacks, cbMutex_, outcome, sent, eventsLogged>>
  /\ PollerKeeps

\* src/src/modbus_master.cpp lines 42-58: error notification; FATAL requests
\* shutdown, TRANSIENT demotes and triggers a reconnect.
LegacyGwError ==
  /\ ppc # "done"
  /\ running
  /\ \E sev \in {"FATAL", "TRANSIENT"} :
       /\ IF sev = "FATAL"
            THEN running' = FALSE /\ UNCHANGED modbusConnected
            ELSE modbusConnected' = FALSE /\ UNCHANGED running
       /\ notice' = [kind |-> sev, valid |-> FALSE,
                     reconnects |-> ReconnectsFor(sev)]
  /\ UNCHANGED staleResult
  /\ UNCHANGED <<ppc, entry, result, json, updLocals, snapshots,
                 valuesAtStart, deviceUpdated, lastEventsHash_, callbacks,
                 cbMutex_, outcome, sent, deviceSent, eventsLogged>>
  /\ UNCHANGED <<mqttVars, mdtor, availVars>>

\* part_005 lines 123-133: setUpdateCallback and setEventCallback register
\* the values and the events callback under cbMutex_.
LegacySetCallback ==
  /\ cbMutex_ = "free"
  /\ \E ch \in {"values", "events"} \ callbacks :
       callbacks' = callbacks \cup {ch}
  /\ UNCHANGED <<modbusConnected, ppc, entry, result, json, updLocals,
                 snapshots, valuesAtStart, deviceUpdated, lastEventsHash_,
                 cbMutex_, tickLog, notice>>
  /\ PollerKeeps

\* part_005 lines 77-80: if (connected_.load()) start with the values.
LegacyTickTest ==
  /\ ppc = "tick"
  /\ IF modbusConnected
       THEN ppc' = "update" /\ entry' = 2
       ELSE ppc' = "wait" /\ UNCHANGED entry
  /\ UNCHANGED <<modbusConnected, result, json, updLocals, snapshots,
                 valuesAtStart, deviceUpdated, lastEventsHash_, callbacks,
                 cbMutex_, tickLog, notice>>
  /\ PollerKeeps

\* part_005 lines 228-238: register fetch, fresh local record.
LegacyValuesBegin ==
  /\ ppc = "update" /\ entry = 2
  /\ valuesAtStart' = <<values_, jsonValues_>>
  /\ \/ /\ result' = FALSE /\ ppc' = "result"
        /\ outcome' = [outcome EXCEPT ![2] = "failed"]
        /\ UNCHANGED <<regs, getterIdx, newValues>>
     \/ \E r \in Readings :
          /\ regs' = r
          /\ newValues' = [DefaultValues EXCEPT !.time = r]
          /\ getterIdx' = 1
          /\ ppc' = "getters"
          /\ UNCHANGED <<result, outcome>>
  /\ UNCHANGED <<modbusConnected, entry, json, newEvents, newDevice,
                 snapshots, deviceUpdated, lastEventsHash_, callbacks,
                 cbMutex_, sent, deviceSent,
                 eventsLogged, notice>>
  /\ UNCHANGED staleResult
  /\ PollerKeeps

\* part_005 lines 384-394: the event getters.
LegacyUpdateEvents ==
  /\ ppc = "update" /\ entry = 3
  /\ \/ /\ result' = FALSE /\ ppc' = "result"
        /\ outcome' = [outcome EXCEPT ![3] = "failed"]
        /\ UNCHANGED newEvents
     \/ \E l \in EventLists :
          /\ newEvents' = EventsOf(l)
          /\ ppc' = "commit"
          /\ UNCHANGED <<result, outcome>>
  /\ UNCHANGED <<modbusConnected, entry, json, regs, getterIdx, newValues,
                 newDevice, snapshots, valuesAtStart, deviceUpdated,
                 lastEventsHash_, callbacks, cbMutex_, sent, deviceSent,
                 eventsLogged, notice>>
  /\ UNCHANGED staleResult
  /\ PollerKeeps

\* part_005 lines 81-85 and 98-102: on failure demote; on success take
\* cbMutex_ and test the callback, keeping the lock if it is registered.
LegacyCheckResult ==
  /\ ppc = "result"
  /\ modbusConnected' = ConnectedAfter(result, modbusConnected)
  /\ IF result
       THEN /\ cbMutex_ = "free"
            /\ IF Channels[entry] \in callbacks
                 THEN /\ cbMutex_' = "poller" /\ ppc' = "callback"
                      /\ UNCHANGED entry
                 ELSE /\ UNCHANGED cbMutex_
                      /\ ppc' = AfterEntry(result, entry)
                      /\ entry' = IF ppc' = "update" THEN entry + 1 ELSE entry
       ELSE /\ UNCHANGED cbMutex_
            /\ ppc' = AfterEntry(result, entry)
            /\ entry' = IF ppc' = "update" THEN entry + 1 ELSE entry
  /\ regs' = 0 /\ getterIdx' = 1 /\ newValues' = DefaultValues
  /\ newEvents' = DefaultEvents /\ newDevice' = DefaultDevice
  /\ result' = TRUE /\ valuesAtStart' = <<DefaultValues, JsonNull>>
  /\ staleResult' = FALSE
  /\ UNCHANGED <<json, snapshots, deviceUpdated, lastEventsHash_,
                 callbacks, outcome, sent, deviceSent, eventsLogged, notice>>
  /\ PollerKeeps

\* part_005 lines 86-94 and 103-111: the callback is invoked with the dump
\* while cbMutex_ is held; an exception it throws requests shutdown; the
\* lock_guard is released at the end of the else block.
LegacyInvokeCallback ==
  /\ ppc = "callback"
  /\ sent' = [sent EXCEPT ![entry] = GetJson(entry)]
  /\ \E throws \in BOOLEAN : running' = (running /\ ~throws)
  /\ cbMutex_' = Release(cbMutex_)
  /\ ppc' = AfterEntry(TRUE, entry)
  /\ entry' = IF ppc' = "update" THEN entry + 1 ELSE entry
  /\ UNCHANGED <<modbusConnected, result, json, updLocals, snapshots,
                 valuesAtStart, deviceUpdated, lastEventsHash_, callbacks,
                 outcome, deviceSent, staleResult, eventsLogged, notice>>
  /\ UNCHANGED <<mqttVars, mdtor, availVars>>

\* ------------------------------------------------- efficiency near zero
\* The efficiency of lines 489-493 for powers that need not be whole watts:
\* a power is a whole number of ticks of half the threshold, 0.5e-12 W, so
\* the literal 1e-12 is two ticks.
EpsTicks == 2

Abs(x) == IF x < 0 THEN -x ELSE x

\* A test that divides whenever the denominator is not exactly zero.
DcNonZero(dc) == dc # 0

\* line 489 (and part_000 line 14): std::abs(denominator) > epsilon
DcAboveEps(dc) == Abs(dc) > EpsTicks

\* part_000 lines 8-22: safeDivide as the exact ratio <<numerator,
\* denominator>>, or the default value over 1.
SafeDivide(numerator, denominator, defaultValue) ==
  IF DcAboveEps(denominator) THEN <<numerator, denominator>>
                             ELSE <<defaultValue, 1>>

\* lines 489-493: acPowerActive / dcPower * 100.0, or 0.0, as an exact
\* ratio of tick counts.
EfficiencyOf(ac, dc) ==
  IF DcAboveEps(dc) THEN <<ac * 100, dc>> ELSE <<0, 1>>

\* The powers explored, in ticks.
Powers == (-MaxPower)..MaxPower

\* lines 424-459: the getters store an active AC power and a DC power into
\* the local record.
EffGetters ==
  /\ ppc = "loop"
  /\ \E ac \in Powers, dc \in Powers :
       newValues' = [DefaultValues EXCEPT !.acPowerActive = ac,
                                          !.dcPower = dc]
  /\ ppc' = "commit" /\ entry' = 2
  /\ UNCHANGED <<modbusConnected, result, json, regs, getterIdx, newEvents,
                 newDevice, snapshots, valuesAtStart, deviceUpdated,
                 lastEventsHash_, callbacks, cbMutex_, tickLog, notice>>
  /\ PollerKeeps

\* lines 489-561: the efficiency is computed into the local record, which
\* is committed with its document.
EffCommit ==
  /\ ppc = "commit" /\ entry = 2
  /\ LET v == [newValues EXCEPT !.efficiency =
                 EfficiencyOf(newValues.acPowerActive, newValues.dcPower)]
     IN /\ values_' = v
        /\ jsonValues_' = ValuesJson(v)
  /\ newValues' = DefaultValues
  /\ ppc' = "loop"
  /\ UNCHANGED <<modbusConnected, entry, result, json, regs, getterIdx,
                 newEvents, newDevice, events_, jsonEvents_, device_,
                 jsonDevice_, valuesAtStart, deviceUpdated, lastEventsHash_,
                 callbacks, cbMutex_, tickLog, notice>>
  /\ PollerKeeps

\* ------------------------------------------------- payloads and topics
\* part_003 line 73: the text of the m-th payload handed to publish.  The
\* callbacks hand over a dump per tick, so a text can repeat: here every
\* text is handed over twice in a row.
PayloadText(m) == (m + 1) \div 2

\* part_005 lines 477-485: the topic the m-th payload is meant for; main
\* wires the callbacks of the channels to <topic>/values, <topic>/events
\* and <topic>/device, and the channels are dispatched in turn.
PayloadTopic(m) == Channels[(m % 3) + 1]

\* ------------------------------------------------------- specification
\* The members after the two constructors, apart from the callback slots.
Constructed ==
  /\ queueSize \in 1..MaxQueueSize
  /\ queue_ = << >>
  /\ droppedCount_ = 0
  /\ connected_ = FALSE
  /\ running = TRUE
  /\ mutex_ = "free"
  /\ pc = "loop"
  /\ payload = 0
  /\ rc = "none"
  /\ nextMsg = 1
  /\ delivered = << >>
  /\ dtor = "alive"
  /\ modbusConnected = FALSE
  /\ ppc = "loop"
  /\ entry = 1
  /\ result = TRUE
  /\ json = NoDoc
  /\ regs = 0
  /\ getterIdx = 1
  /\ newValues = DefaultValues
  /\ values_ = DefaultValues
  /\ jsonValues_ = JsonNull
  /\ valuesAtStart = <<DefaultValues, JsonNull>>
  /\ deviceUpdated = FALSE
  /\ device_ = DefaultDevice
  /\ jsonDevice_ = JsonNull
  /\ events_ = DefaultEvents
  /\ jsonEvents_ = JsonNull
  /\ lastEventsHash_ = << >>
  /\ newEvents = DefaultEvents
  /\ newDevice = DefaultDevice
  /\ cbMutex_ = "free"
  /\ outcome = NoLog
  /\ sent = NotSent
  /\ deviceSent = FALSE
  /\ notice = NoNotice
  /\ staleResult = FALSE
  /\ eventsLogged = FALSE
  /\ mdtor = "alive"
  /\ available = "none"

\* The callback slots are empty until main registers them.
Init == Constructed /\ callbacks = {} /\ availabilityCallback_ = FALSE

Next ==
  \/ Publish \/ OnConnect \/ OnDisconnect \/ Shutdown
  \/ DtorNotifyAll \/ DtorJoin
  \/ LoopTest \/ Lock
  \/ Wait1Pred \/ Wait1Block \/ Wait1Spurious \/ Wait1Relock \/ Check1
  \/ Wait2Pred \/ Wait2Block \/ Wait2Spurious \/ Wait2Relock \/ Check2
  \/ DrainTest \/ SinkPublish \/ Relock \/ ResetCount

Spec == Init /\ [][Next]_vars

\* The poller with the inverter's notifications, callback registration and
\* the shutdown signal.
PollerNext ==
  \/ GwConnect \/ GwDisconnect \/ GwError \/ SetCallback \/ Shutdown
  \/ ReaderLock \/ ReaderUnlock
  \/ PLoopTest \/ PTickTest
  \/ UpdateDevice \/ DeviceCommit \/ DeviceCommitRecord
  \/ ValuesBegin \/ ValuesGetter \/ ValuesCommit \/ ValuesCommitRecord
  \/ UpdateEvents \/ EventsCommit \/ EventsCommitRecord
  \/ CheckResult \/ InvokeCallback \/ TickEnd \/ IntervalWait
  \/ IntervalWake

\* The poller is explored with one queue configuration: it never touches it.
PollerInit == Init /\ queueSize = 1

PollerSpec == PollerInit /\ [][PollerNext]_vars

\* The efficiency applied to every pair of powers, again and again.
EffNext == EffGetters \/ EffCommit

EffSpec == PollerInit /\ [][EffNext]_vars

\* The earlier ModbusMaster of part_005 with its callbacks under cbMutex_.
LegacyNext ==
  \/ GwConnect \/ LegacyGwDisconnect \/ LegacyGwError
  \/ LegacySetCallback \/ Shutdown
  \/ ReaderLock \/ ReaderUnlock
  \/ PLoopTest \/ LegacyTickTest
  \/ LegacyValuesBegin \/ ValuesGetter \/ ValuesCommit
  \/ ValuesCommitRecord
  \/ LegacyUpdateEvents \/ EventsCommit \/ EventsCommitRecord
  \/ LegacyCheckResult \/ LegacyInvokeCallback \/ TickEnd \/ IntervalWait
  \/ IntervalWake

LegacySpec == PollerInit /\ [][LegacyNext]_vars

\* ================== the ModbusMaster of src/src/modbus_master.cpp
\* Its run loop polls the three channels and copies the dump under cbMutex_
\* like the run loop above, but it invokes the callback inside a try block
\* whose handler requests shutdown, whether or not shutdown was requested,
\* and it waits only in an iteration that found the connection up.  Its
\* update functions have no shutdown test and no events hash; its
\* notifications are LegacyGwDisconnect and LegacyGwError.

\* src/src/modbus_master.cpp lines 76 and 126-129: if (connected_.load())
\* start with the first entry, else go straight to the loop condition.
VariantTickTest ==
  /\ ppc = "tick"
  /\ IF modbusConnected
       THEN ppc' = "update" /\ entry' = 1
       ELSE ppc' = "loop" /\ UNCHANGED entry
  /\ UNCHANGED <<modbusConnected, result, json, updLocals, snapshots,
                 valuesAtStart, deviceUpdated, lastEventsHash_, callbacks,
                 cbMutex_, tickLog, notice>>
  /\ PollerKeeps

\* src/src/modbus_master.cpp lines 380-400: the one-shot flag, then the
\* identity getters.
VariantUpdateDevice ==
  /\ ppc = "update" /\ entry = 1
  /\ IF DeviceCached(deviceUpdated)
       THEN /\ result' = TRUE /\ ppc' = "result"
            /\ outcome' = [outcome EXCEPT ![1] = "cached"]
            /\ UNCHANGED newDevice
       ELSE \/ /\ result' = FALSE /\ ppc' = "result"
               /\ outcome' = [outcome EXCEPT ![1] = "failed"]
               /\ UNCHANGED newDevice
            \/ /\ newDevice' = DeviceInfo
               /\ ppc' = "commit"
               /\ UNCHANGED <<result, outcome>>
  /\ UNCHANGED <<modbusConnected, entry, json, regs, getterIdx, newValues,
                 newEvents, snapshots, valuesAtStart, deviceUpdated,
                 lastEventsHash_, callbacks, cbMutex_, sent, deviceSent,
                 staleResult, eventsLogged, notice>>
  /\ PollerKeeps

\* src/src/modbus_master.cpp lines 107-118: the callback is invoked with the
\* copied dump; an exception it throws is caught and requests shutdown.
VariantInvokeCallback ==
  /\ ppc = "callback"
  /\ sent' = [sent EXCEPT ![entry] = json]
  /\ deviceSent' = (deviceSent \/ entry = 1)
  /\ \E throws \in BOOLEAN : running' = (running /\ ~throws)
  /\ json' = NoDoc
  /\ ppc' = AfterEntry(TRUE, entry)
  /\ entry' = IF ppc' = "update" THEN entry + 1 ELSE entry
  /\ UNCHANGED <<modbusConnected, result, updLocals, snapshots,
                 valuesAtStart, deviceUpdated, lastEventsHash_, callbacks,
                 cbMutex_, outcome, staleResult, eventsLogged, notice>>
  /\ UNCHANGED <<mqttVars, mdtor, availVars>>

VariantNext ==
  \/ GwConnect \/ LegacyGwDisconnect \/ LegacyGwError
  \/ SetCallback \/ Shutdown
  \/ ReaderLock \/ ReaderUnlock
  \/ PLoopTest \/ VariantTickTest
  \/ VariantUpdateDevice \/ DeviceCommit \/ DeviceCommitRecord
  \/ LegacyValuesBegin \/ ValuesGetter \/ ValuesCommit
  \/ ValuesCommitRecord
  \/ LegacyUpdateEvents \/ EventsCommit \/ EventsCommitRecord
  \/ CheckResult \/ VariantInvokeCallback \/ TickEnd \/ IntervalWait
  \/ IntervalWake

VariantSpec == PollerInit /\ [][VariantNext]_vars

\* ------------------------------------------------------- ~ModbusMaster
\* lines 275-281: main leaves handler.wait() after shutdown; the destructor
\* stores connected_ = false, reports it and broadcasts on cv_.
MDtorNotifyAll ==
  /\ ~running
  /\ mdtor = "alive"
  /\ mdtor' = "joining"
  /\ modbusConnected' = FALSE
  /\ available' = Notified(availabilityCallback_, modbusConnected', available)
  /\ UNCHANGED <<ppc, entry, result, json, updLocals, snapshots,
                 valuesAtStart, deviceUpdated, lastEventsHash_, callbacks,
                 cbMutex_, tickLog, notice>>
  /\ UNCHANGED <<mqttVars, running, availabilityCallback_>>

\* lines 282-283: worker_.join() returns once runLoop has returned.
MDtorJoin ==
  /\ mdtor = "joining"
  /\ ppc = "done"
  /\ mdtor' = "joined"
  /\ UNCHANGED <<modbusConnected, ppc, entry, result, json, updLocals,
                 snapshots, valuesAtStart, deviceUpdated, lastEventsHash_,
                 callbacks, cbMutex_, tickLog, notice>>
  /\ UNCHANGED <<mqttVars, running, availVars>>

\* The steps of the worker thread inside runLoop.
RunLoop ==
  \/ PLoopTest \/ PTickTest
  \/ UpdateDevice \/ DeviceCommit \/ DeviceCommitRecord
  \/ ValuesBegin \/ ValuesGetter \/ ValuesCommit \/ ValuesCommitRecord
  \/ UpdateEvents \/ EventsCommit \/ EventsCommitRecord
  \/ CheckResult \/ InvokeCallback \/ TickEnd \/ IntervalWait
  \/ IntervalWake

\* The poller once main has registered the three callbacks (part_005 lines
\* 477-485), up to the end of its destructor.
PollerLiveInit ==
  /\ Constructed /\ queueSize = 1
  /\ callbacks = {"device", "values", "events"}
  /\ availabilityCallback_ = FALSE

PollerLiveNext ==
  \/ GwConnect \/ GwDisconnect \/ GwError \/ Shutdown
  \/ ReaderLock \/ ReaderUnlock
  \/ RunLoop
  \/ MDtorNotifyAll \/ MDtorJoin

\* The worker thread is scheduled and gets cbMutex_ whenever it is free
\* again and again (the interval always elapses; a reader returns); main
\* runs the destructor once shutdown was requested.  The inverter, the
\* signal and the readers are not obliged to do anything else.
PollerLiveSpec ==
  /\ PollerLiveInit /\ [][PollerLiveNext]_vars
  /\ SF_vars(RunLoop) /\ WF_vars(ReaderUnlock)
  /\ WF_vars(MDtorNotifyAll) /\ WF_vars(MDtorJoin)

\* The consumer thread is scheduled fairly; the environment (producers, the
\* broker, signals, spurious wake-ups) is not obliged to do anything.
LiveSpec == Init /\ [][Next]_vars /\ WF_vars(Worker)
             /\ WF_vars(DtorNotifyAll) /\ WF_vars(DtorJoin)

\* ======================================================= outbound queue
\* A step in which MqttClient::publish ran (it alone advances nextMsg).
PublishStep == nextMsg' = nextMsg + 1

\* A step in which the consumer itself moved.
ConsumerStep == pc' # pc /\ pc' # NotifyOne(pc)

IsPrefix(s, t) == Len(s) <= Len(t) /\ s = SubSeq(t, 1, Len(s))

\* C1: the queue never holds more than queueSize messages, for every
\* capacity 1..MaxQueueSize and every interleaving; a publish on a full queue
\* removes exactly the head and appends the new message at the tail, a
\* publish on a queue that is not full removes nothing, and the new message is
\* never rejected.
C1_QueueBound ==
  /\ [](Len(queue_) <= queueSize)
  /\ [][PublishStep =>
          /\ Len(queue_') >= 1
          /\ queue_'[Len(queue_')] = nextMsg
          /\ IF Len(queue_) = queueSize
               THEN /\ Len(queue_') = queueSize
                    /\ SubSeq(queue_', 1, queueSize - 1) = Tail(queue_)
               ELSE SubSeq(queue_', 1, Len(queue_)) = queue_
                    /\ Len(queue_') = Len(queue_) + 1]_vars

\* C1 witness: a full queue of capacity >= 2 that has overflowed while the
\* consumer was delivering.
C1_Witness ==
  /\ queueSize >= 2
  /\ Len(queue_) = queueSize
  /\ droppedCount_ >= 1
  /\ delivered # << >>

\* C2: from the empty queue with drop counter 0 and with no removal by the
\* consumer, after queueSize + 1 publishes the queue is m2..m(queueSize+1) in
\* order and the drop counter is 1.
C2_DropOldestResult ==
  (nextMsg = queueSize + 2 /\ delivered = << >>)
    => /\ queue_ = [i \in 1..queueSize |-> i + 1]
       /\ droppedCount_ = 1

\* C2 witness: capacity 2 after three publishes and no delivery.
C2_Witness ==
  /\ queueSize = 2
  /\ nextMsg = 4
  /\ delivered = << >>
  /\ queue_ = <<2, 3>>

\* C3: the successfully delivered messages are a subsequence of the enqueue
\* sequence: each was enqueued, and they are delivered in strictly increasing
\* enqueue order.
C3_FifoDelivery ==
  /\ \A i \in 1..Len(delivered) : delivered[i] \in 1..(nextMsg - 1)
  /\ \A i, j \in 1..Len(delivered) : i < j => delivered[i] < delivered[j]

\* C3 witness: two deliveries with a gap between them (the messages between
\* were evicted or removed undelivered), after an overflow.
C3_Witness ==
  /\ Len(delivered) >= 2
  /\ delivered[2] > delivered[1] + 1
  /\ droppedCount_ >= 1

\* C4: a failed delivery attempt removes nothing from the queue and ends the
\* drain loop of this cycle; the next attempt that starts after a failure is
\* for the same message unless overflow evicted it meanwhile.
C4_FailKeepsHead ==
  /\ [][(pc = "relock" /\ rc = "fail" /\ ConsumerStep)
          => (queue_' = queue_ /\ pc' = "reset")]_vars
  /\ [][(pc = "drain" /\ pc' = "publishing" /\ rc = "fail")
          => (payload' = payload \/ payload \notin Range(queue_))]_vars
  /\ []((pc = "reset" /\ rc = "fail" /\ payload \in Range(queue_))
          => Head(queue_) = payload)

\* C4 witness: a new attempt is in flight for the head after a failed one.
C4_Witness ==
  /\ pc = "publishing"
  /\ rc = "fail"
  /\ payload = Head(queue_)
  /\ Len(queue_) >= 2

\* C5 (as claimed): capacity 2, A, B, C published while disconnected, then the
\* sink connects and stays connected, publishes succeed, nothing else is
\* enqueued: B and then C are delivered.
C5_DeliveredAfterConnect ==
  ( /\ queueSize = 2
    /\ [](nextMsg < 4 => ~connected_)
    /\ [](nextMsg <= 4)
    /\ <>[](nextMsg = 4 /\ connected_)
    /\ []running
    /\ [](rc # "fail") )
  => <>(delivered = <<2, 3>>)

\* C5, the part the code keeps: a delivery attempt starts only from a state
\* in which the flag is set, the queue is not empty and shutdown was not
\* requested; in the scenario the deliveries are a prefix of B, C.
C5_Gating ==
  [][(pc = "drain" /\ pc' = "publishing")
       => (connected_ /\ queue_ # << >> /\ running)]_vars

C5_ScenarioOrder ==
  (queueSize = 2 /\ [](nextMsg < 4 => ~connected_))
    => [](nextMsg = 4 => IsPrefix(delivered, <<2, 3>>))

\* C6: the drop counter changes only by +1 in a publish that finds the queue
\* full, or to 0 when the consumer finds the queue empty at the end of a drain
\* cycle; every publish on a full queue counts; whenever the queue is empty
\* and the consumer does not hold the mutex the counter is 0.
C6_DropCounter ==
  /\ [][droppedCount_' # droppedCount_ =>
          \/ /\ PublishStep
             /\ Len(queue_) >= queueSize
             /\ droppedCount_' = droppedCount_ + 1
          \/ /\ pc = "reset" /\ pc' = "loop"
             /\ queue_ = << >>
             /\ droppedCount_' = 0]_vars
  /\ [][(PublishStep /\ Len(queue_) >= queueSize)
          => droppedCount_' = droppedCount_ + 1]_vars
  /\ []((queue_ = << >> /\ mutex_ = "free") => droppedCount_ = 0)

\* C6 witness: the queue has drained after an overflow and the counter is
\* back to 0 (not every published message was delivered).
C6_Witness ==
  /\ pc = "loop"
  /\ queue_ = << >>
  /\ droppedCount_ = 0
  /\ Len(delivered) < nextMsg - 1

\* C7 (as claimed): if the sink stays connected, shutdown is not requested
\* and publish attempts succeed, the queue is eventually drained for good,
\* also in the runs in which the producer could still publish but does not.
C7_LiveDelivery ==
  ([](nextMsg <= MaxMsgs) /\ <>[](connected_ /\ running /\ rc # "fail"))
    => <>[](queue_ = << >>)

\* C8: the consumer does not hold the mutex while mosquitto_publish is in
\* progress, so publish is enabled during a delivery and while the consumer
\* sleeps disconnected; every publish wakes the consumer if it is blocked.
C8_EnqueueNotBlocked ==
  /\ [](pc = "publishing" => mutex_ = "free")
  /\ []((pc \in {"publishing", "sleep1", "sleep2"} /\ nextMsg <= MaxMsgs)
          => ENABLED Publish)
  /\ [][PublishStep => pc' \notin {"sleep1", "sleep2"}]_vars

\* C8 witness: a publish completed (and evicted the message in flight) while
\* the delivery was in progress.
C8_Witness ==
  /\ pc = "publishing"
  /\ payload \notin Range(queue_)

\* C9 (as claimed): once shutdown is flagged and the destructor has
\* broadcast, the consumer leaves run() (also in the runs in which the
\* producer could still publish but does not).
C9_ShutdownExits ==
  [](nextMsg <= MaxMsgs) => ((dtor = "joining") ~> (pc = "done"))

\* C9, the part the code keeps: no delivery attempt starts once shutdown is
\* flagged, and the consumer removes nothing without a delivery.
C9_NoAttemptAfterShutdown ==
  [][(pc = "drain" /\ pc' = "publishing") => running]_vars

\* ======================================================= poller
\* C10: when the register fetch or a getter fails in updateValuesAndJson,
\* the committed values record and document are those of before the update
\* and the update reports failure, the committed record is never a partly
\* filled one, and the run loop then clears the connection flag.
C10_OldValueRetained ==
  /\ []((ppc = "result" /\ entry = 2 /\ ~result)
          => <<values_, jsonValues_>> = valuesAtStart)
  /\ [](values_ = DefaultValues \/ \E r \in Readings : values_ = ValuesOf(r))
  /\ [][(ppc \in {"update", "getters"} /\ entry = 2 /\ ppc' = "result")
          => ~result']_vars
  /\ [][(ppc = "result" /\ ~result /\ ppc' # ppc) => ~modbusConnected']_vars

\* C10 witness: a getter failed after an earlier getter of the same update
\* had succeeded, while a record of another reading was committed.
C10_Witness ==
  /\ ppc = "result" /\ entry = 2 /\ ~result
  /\ getterIdx >= 2
  /\ values_ # DefaultValues
  /\ regs # values_.time

\* The committed values record and document stem from one update (or from
\* construction), and the record is a complete one.
ValuesWhole ==
  /\ \/ values_ = DefaultValues /\ jsonValues_ = JsonNull
     \/ jsonValues_ = ValuesJson(values_)
  /\ values_ = DefaultValues \/ \E r \in Readings : values_ = ValuesOf(r)

\* The committed events record and document stem from one update.
EventsWhole ==
  \/ events_ = DefaultEvents /\ jsonEvents_ = JsonNull
  \/ jsonEvents_ = EventsJson(events_)

\* The committed device record and document stem from one update.
DeviceWhole ==
  \/ device_ = DefaultDevice /\ jsonDevice_ = JsonNull
  \/ jsonDevice_ = DeviceJson(device_)

\* C11: atomic snapshot commit.  Whenever the run loop is not inside a
\* commit block, in particular whenever a reader holds cbMutex_ inside
\* getValues or getJsonDump, record and document of each channel stem from
\* the same update; a commit changes both inside one critical section, and a
\* reader never enters while the run loop holds cbMutex_.
C11_AtomicSnapshot ==
  /\ [](cbMutex_ # "poller" => ValuesWhole /\ EventsWhole /\ DeviceWhole)
  /\ [](ppc = "commitRecord" => cbMutex_ = "poller")
  /\ [][cbMutex_' = "reader" => UNCHANGED snapshots]_vars

\* C11 witness: a reader is inside getValues while the run loop, having
\* committed one values snapshot earlier, is about to commit the next one.
C11_Witness ==
  /\ cbMutex_ = "reader"
  /\ ppc = "commit" /\ entry = 2
  /\ jsonValues_ # JsonNull
  /\ newValues.time # values_.time

\* A step of the run loop thread that executes the update of entry e.
UpdateStep(e) == ppc = "update" /\ entry = e /\ ppc' # ppc

\* C12 as stated: once the device metadata was fetched, every later device
\* update returns success, calls no identity getter and leaves the committed
\* device snapshot alone.
C12_AlwaysSuccess ==
  [][(UpdateStep(1) /\ deviceUpdated)
       => (result' /\ outcome'[1] = "cached"
           /\ UNCHANGED <<device_, jsonDevice_>>)]_vars

\* C12 amended: once the device metadata was fetched, every later device
\* update calls no identity getter and leaves the committed device snapshot
\* alone; it returns success unless shutdown was requested, and an error
\* when it was.
C12_OneShot ==
  /\ [][(UpdateStep(1) /\ deviceUpdated)
          => /\ ppc' = "result"
             /\ outcome'[1] = (IF running THEN "cached" ELSE "interrupted")
             /\ result' = running
             /\ UNCHANGED <<device_, jsonDevice_, newDevice>>]_vars
  /\ [][deviceUpdated => UNCHANGED <<device_, jsonDevice_, deviceUpdated>>]_vars
  /\ [](deviceUpdated => ~(entry = 1 /\ ppc \in {"commit", "commitRecord"}))

\* C12 witness: a later tick found the flag set and returned success without
\* fetching.
C12_Witness ==
  /\ deviceUpdated
  /\ ppc = "result" /\ entry = 1 /\ result
  /\ outcome[1] = "cached"
  /\ jsonDevice_ = DeviceJson(DeviceInfo)

\* A step of the run loop thread that invokes the callback of entry e.
InvokeStep(e) ==
  ppc = "callback" /\ entry = e /\ ppc' # ppc /\ sent'[e] # NoDoc

\* C13: the device document is dispatched at most once per connection: the
\* device callback is not invoked again when it was already invoked since
\* the inverter's last connect or disconnect notification.
C13_DeviceOncePerConnection == [][InvokeStep(1) => ~deviceSent]_vars

\* C14: device metadata is invalidated on reconnect: when a successful
\* connect notification follows a disconnect notification, the one-shot flag
\* is clear afterwards, so that the next device update fetches again.
C14_FlagClearedOnReconnect ==
  [][(notice.kind = "disconnect" /\ notice'.kind = "connect"
        /\ notice'.valid)
       => ~deviceUpdated']_vars

\* C15: in the three-tick scenario the device callback is invoked on tick 1
\* only.  In tick 2 all callbacks are registered, the device update is
\* short-circuited (tick 1 fetched the metadata) and the register fetch of
\* the values update fails: when that failure is seen, the device callback
\* has not been invoked in this tick.
C15_DeviceCallbackTick1Only ==
  (/\ ppc = "result" /\ entry = 2
   /\ outcome[2] = "failed"
   /\ outcome[1] = "cached"
   /\ callbacks = Range(Channels))
    => sent[1] = NoDoc

\* A step of the run loop thread that tests the result of entry e's update.
ResultStep == ppc = "result" /\ ppc' # ppc

\* The updates that ended in an error in this tick.
Failed(e) == outcome[e] \in {"failed", "interrupted"}

\* C16: per-channel failure isolation.  A failed update demotes the
\* connection and its channel is not dispatched in this tick, but the run
\* loop goes on with the next channel: at the end of a tick all three
\* updates have run, and a later channel whose update succeeded is copied
\* and handed to its callback (if registered and not shutting down) whatever
\* happened to the channels before it.
C16_FailureIsolation ==
  /\ [][(ResultStep /\ ~result)
          => /\ ~modbusConnected'
             /\ ppc' # "callback"
             /\ sent' = sent
             /\ entry < 3 => (ppc' = "update" /\ entry' = entry + 1)]_vars
  /\ [](\A e \in 1..3 : Failed(e) => sent[e] = NoDoc)
  /\ [](ppc = "tickend" => \A e \in 1..3 : outcome[e] # "none")
  /\ [][(ResultStep /\ result /\ Channels[entry] \in callbacks)
          => (ppc' = "callback" /\ json' = GetJson(entry))]_vars
  /\ [][(ppc = "callback" /\ ppc' # ppc /\ running)
          => sent'[entry] = json]_vars

\* C16 witness: at the end of a tick the values update has failed, the
\* connection is demoted, and the events update of the same tick succeeded
\* and was dispatched.
C16_Witness ==
  /\ ppc = "tickend"
  /\ outcome[2] = "failed" /\ sent[2] = NoDoc
  /\ ~modbusConnected
  /\ outcome[3] = "fresh" /\ sent[3] = Dump(jsonEvents_)

\* The updates that returned success in this tick.
Succeeded(e) == outcome[e] \in {"fresh", "cached"}

C18_NoLockAcrossCallback ==
  ppc = "callback"
    => /\ cbMutex_ # "poller"
       /\ cbMutex_ = "free" => ENABLED ReaderLock

\* A step in which the inverter delivers a notification of kind k.
NoticeStep(k) == notice' # notice /\ notice'.kind = k

\* C19: connected only via a validated connect.  The state changes to
\* Connected only in a step that is the connect notification with a
\* successful validation and not a step of the run loop; after a connect
\* notification the state is what the validation said, and the notification
\* requests no shutdown.
C19_ConnectedOnlyByValidConnect ==
  /\ [][(~modbusConnected /\ modbusConnected')
          => /\ notice'.kind = "connect" /\ notice'.valid
             /\ UNCHANGED <<ppc, entry, result, running>>]_vars
  /\ [][NoticeStep("connect")
          => /\ modbusConnected' = notice'.valid
             /\ running' = running]_vars
  /\ []((notice.kind = "connect" /\ ~notice.valid) => ~modbusConnected)

\* C19 witness: the inverter connected but validation failed while the run
\* loop had a tick under way on the connection before: the state is
\* Disconnected and nothing was shut down.
C19_Witness ==
  /\ notice.kind = "connect" /\ ~notice.valid
  /\ ~modbusConnected
  /\ running
  /\ ppc = "getters"

\* C20: demotion by notifications.  After a disconnect notification and
\* after a TRANSIENT error the state is Disconnected until the next connect
\* notification; the TRANSIENT handler calls triggerReconnect exactly once
\* and the disconnect handler never; neither requests shutdown.
C20_DemotionByNotification ==
  /\ [](notice.kind \in {"disconnect", "TRANSIENT"} => ~modbusConnected)
  /\ [](notice.kind = "TRANSIENT" => notice.reconnects = 1)
  /\ [](notice.kind = "disconnect" => notice.reconnects = 0)
  /\ [][(NoticeStep("disconnect") \/ NoticeStep("TRANSIENT"))
          => (~modbusConnected' /\ running' = running)]_vars


\* ================================================== recovery and shutdown
\* The worker thread demoted the connection: the poller is Disconnected
\* although the inverter's last notification is a valid connect, and no
\* shutdown was requested.
RunLoopDemoted ==
  /\ running
  /\ ~modbusConnected
  /\ notice.kind = "connect" /\ notice.valid

\* C21: after a failed update demoted the connection, the run loop goes on
\* and the poller does not stay Disconnected for ever: it is Connected
\* again, or the inverter has been heard from again (an error whose handler
\* may request a reconnect, a disconnect, a further connect), or shutdown
\* was requested.
C21_RecoversAfterTickFailure == RunLoopDemoted ~> ~RunLoopDemoted


\* C22: a valid connect notification that is followed by no disconnect, no
\* error and no failed update leaves the poller Connected: testing the
\* result of an update that failed before the notification arrived does not
\* demote the new connection.
C22_NoStaleDemotion ==
  [][(ResultStep /\ staleResult /\ modbusConnected
        /\ notice.kind = "connect" /\ notice.valid) => modbusConnected']_vars


\* A step in which the external signal handler requested shutdown.
SignalStep == running /\ ~running' /\ UNCHANGED pollerVars

\* C23: a FATAL error requests shutdown; once shutdown is requested the loop
\* test starts no tick and the run loop eventually exits; the run loop exits
\* only after shutdown was requested, and shutdown is requested only by a
\* FATAL error or by the external signal.
C23_FatalTerminates ==
  /\ [][NoticeStep("FATAL") => ~running']_vars
  /\ [][(ppc = "loop" /\ ~running /\ ppc' # ppc) => ppc' = "done"]_vars
  /\ (notice.kind = "FATAL") ~> (ppc = "done")
  /\ [][(ppc # "done" /\ ppc' = "done") => ~running]_vars
  /\ [][(running /\ ~running') => (NoticeStep("FATAL") \/ SignalStep)]_vars

\* The run loop has exited after a FATAL error that arrived in the middle of
\* a tick, with no signal involved.
C23_Witness ==
  /\ notice.kind = "FATAL" /\ ppc = "done" /\ ~running
  /\ values_ # DefaultValues


\* A step of the worker thread inside runLoop.
WorkerStep == ppc' # ppc

\* C24: the poller requests shutdown only in the handler of a FATAL error:
\* no step of the worker thread (a failed update, a failure inside the tick)
\* and no other notification clears the running flag.
C24_ShutdownOnlyOnFatal ==
  /\ [][WorkerStep => running' = running]_vars
  /\ [][(notice' # notice /\ notice'.kind # "FATAL")
          => running' = running]_vars


C26_ShutdownNoOp ==
  /\ [][\A e \in 1..3 :
          (UpdateStep(e) /\ ~running) =>
            /\ ~result' /\ ppc' = "result"
            /\ outcome'[e] = "interrupted"
            /\ UNCHANGED <<snapshots, updLocals, lastEventsHash_,
                           deviceUpdated, eventsLogged>>]_vars
  /\ [](\A e \in 1..3 : outcome[e] = "interrupted" => sent[e] = NoDoc)
  /\ [][NoticeStep("SHUTDOWN")
          => (notice'.reconnects = 0 /\ running' = running)]_vars

\* A tick overtaken by shutdown: the values update returned the shutdown
\* error over a committed snapshot, and a SHUTDOWN-severity error arrived.
C26_Witness ==
  /\ ppc = "tickend" /\ outcome[2] = "interrupted"
  /\ outcome[3] = "interrupted"
  /\ values_ # DefaultValues /\ "values" \in callbacks
  /\ notice.kind = "SHUTDOWN"


\* ================================================== events and publishing
\* C27: a successful events update whose callback is registered is always
\* dispatched (its callback is invoked with the committed events document
\* unless shutdown was requested meanwhile), whether or not the event list
\* changed: the hash comparison decides the log line only.
C27_EventsAlwaysDispatched ==
  /\ [][(ResultStep /\ entry = 3 /\ result /\ "events" \in callbacks)
          => (ppc' = "callback" /\ json' = Dump(jsonEvents_))]_vars
  /\ [][(ppc = "callback" /\ entry = 3 /\ ppc' # ppc /\ running)
          => sent'[3] = Dump(EventsJson(events_))]_vars
  /\ [][(UpdateStep(3) /\ ppc' = "commit") =>
          eventsLogged' = (newEvents'.events # << >>
                           /\ lastEventsHash_' # lastEventsHash_)]_vars

\* The events callback received a non-empty list for which no log line was
\* emitted: the list is the one of the previous successful update.
C27_Witness ==
  /\ ppc = "tickend" /\ sent[3] = Dump(EventsJson(events_))
  /\ events_.events # << >> /\ ~eventsLogged


\* C28: a payload whose text equals the text of the previous payload is not
\* published again: no two payloads delivered in a row have the same text.
C28_DuplicateSuppressed ==
  \A i \in 1..(Len(delivered) - 1) :
    PayloadText(delivered[i]) # PayloadText(delivered[i + 1])


\* C29: every topic has a bounded queue of its own: a publish that finds
\* the queue full evicts a payload of its own topic only.
C29_EvictionWithinTopic ==
  [][(PublishStep /\ Len(queue_) >= queueSize)
       => PayloadTopic(Head(queue_)) = PayloadTopic(nextMsg)]_vars


\* C30: a tick in which only the device update failed does not leave the
\* connection demoted: at its end, with a valid connect as the inverter's
\* last notification, the poller is Connected, so the next iteration runs
\* its updates without a new connect notification.
C30_DeviceFailureConfined ==
  (/\ ppc = "tickend" /\ running
   /\ outcome[1] = "failed" /\ outcome[2] = "fresh" /\ outcome[3] = "fresh"
   /\ notice.kind = "connect" /\ notice.valid)
    => modbusConnected


\* ====================================================== efficiency
\* Two exact ratios <<n, d>> denote the same number.
SameRatio(a, b) == a[1] * b[2] = b[1] * a[2]

\* C31: the committed efficiency is exactly 0 when |DC power| is at most
\* the threshold (zero included) and active / DC * 100 otherwise, and its
\* denominator is never zero; safeDivide agrees with it.
C31_Efficiency ==
  /\ [][(ppc = "commit" /\ ppc' = "loop") =>
          LET ac == newValues.acPowerActive
              dc == newValues.dcPower
              eff == values_'.efficiency
          IN /\ eff[2] # 0
             /\ values_'.acPowerActive = ac /\ values_'.dcPower = dc
             /\ Abs(dc) <= EpsTicks => eff = <<0, 1>>
             /\ Abs(dc) > EpsTicks =>
                  (eff[2] = dc /\ SameRatio(eff, <<ac * 100, dc>>))
             /\ SameRatio(eff, SafeDivide(ac * 100, dc, 0))]_vars

\* An efficiency of 0 was committed for a non-zero DC power inside the
\* threshold with a non-zero AC power.
C31_Witness ==
  /\ ppc = "loop" /\ values_.dcPower = -1 /\ values_.acPowerActive = 3
  /\ values_.efficiency = <<0, 1>>


\* ====================================================== tick structure
\* The positions of the worker thread inside a tick.
InTick == ppc \in {"update", "getters", "commit", "commitRecord", "result",
                   "callback"}

\* C32: the iteration runs its updates exactly if connected_ reads true at
\* the top; outside a tick (so in every iteration that read false) nothing
\* is fetched, committed or dispatched; inside a tick the entries run in the
\* order device, values, events, and an entry is dispatched, if at all,
\* before the update of the next entry starts.
C32_TickGatingAndOrder ==
  /\ [][(ppc = "tick" /\ ppc' # ppc) =>
          IF modbusConnected THEN ppc' = "update" /\ entry' = 1
                             ELSE ppc' = "wait"]_vars
  /\ [][~InTick =>
          /\ UNCHANGED <<snapshots, regs, json>>
          /\ sent' = sent \/ sent' = NotSent]_vars
  /\ [](InTick => \A e \in 1..3 :
          /\ e < entry => outcome[e] # "none"
          /\ e > entry => (outcome[e] = "none" /\ sent[e] = NoDoc))
  /\ [][\A e \in 1..3 : (sent'[e] # sent[e] /\ sent'[e] # NoDoc)
          => (ppc = "callback" /\ entry = e)]_vars
  /\ [][entry' # entry =>
          \/ ppc = "tick" /\ entry' = 1
          \/ /\ ppc \in {"result", "callback"}
             /\ entry' = entry + 1 /\ ppc' = "update"]_vars

\* The events update is about to start after the device and the values
\* documents of this tick were both dispatched.
C32_Witness ==
  /\ ppc = "update" /\ entry = 3
  /\ sent[1] # NoDoc /\ sent[2] # NoDoc


\* C33: the run loop comes back to its loop test only through the interval
\* wait: every step that reaches the loop test leaves the call of wait_for
\* (which returns at once only when shutdown was requested) or its sleep.
C33_WaitsEveryIteration ==
  [][(ppc' = "loop" /\ ppc # "loop") => ppc \in {"wait", "sleep"}]_vars


\* ====================================================== event log line
\* A step of updateEventsAndJson that read the event list and passed the
\* hash comparison.
EventsRead == ppc = "update" /\ entry = 3 /\ ppc' = "commit"

\* C34: a successful events update emits the log line exactly for a
\* non-empty list whose hash differs from the stored one or with no stored
\* hash; an empty list clears the stored hash; the list committed by the
\* previous successful update is not logged again, a list that follows an
\* empty one is logged, and between updates the stored hash is the hash of
\* the committed list (none for an empty one); an update that fails leaves
\* the hash as it was.
C34_EventLogDedup ==
  /\ [][EventsRead =>
          LET l == newEvents'.events IN
          /\ eventsLogged' <=>
               (l # << >> /\ (lastEventsHash_ = << >>
                              \/ lastEventsHash_[1] # EventsHash(l)))
          /\ l = << >> => lastEventsHash_' = << >>
          /\ l # << >> => lastEventsHash_' = <<EventsHash(l)>>
          /\ (l # << >> /\ events_.events = l) => ~eventsLogged'
          /\ (l # << >> /\ events_.events = << >>) => eventsLogged']_vars
  /\ [][(ppc = "update" /\ entry = 3 /\ ppc' = "result")
          => UNCHANGED <<lastEventsHash_, events_>>]_vars
  /\ []((entry # 3 \/ ppc \notin {"commit", "commitRecord"}) =>
          lastEventsHash_ = IF events_.events = << >> THEN << >>
                            ELSE <<EventsHash(events_.events)>>)

\* The list of the previous update was read again and not logged.
C34_Witness ==
  /\ ppc = "commit" /\ entry = 3
  /\ newEvents.events = <<1>> /\ events_.events = <<1>>
  /\ ~eventsLogged


\* ====================================================== device one-shot
\* A step of updateDeviceAndJson that leaves its first position.
DeviceAttempt == ppc = "update" /\ entry = 1 /\ ppc' # ppc

\* C35: deviceUpdated is only ever set, and only by the step that completes
\* the commit of device_ and jsonDevice_; a failed identity getter commits
\* nothing and leaves the flag clear; while the flag is clear every device
\* update of a running process fetches again, and once it is set every
\* device update returns at once.
C35_DeviceRetried ==
  /\ [][deviceUpdated' # deviceUpdated =>
          /\ deviceUpdated'
          /\ ppc = "commitRecord" /\ entry = 1
          /\ device_' = DeviceInfo
          /\ jsonDevice_' = DeviceJson(DeviceInfo)]_vars
  /\ [](deviceUpdated =>
          (device_ = DeviceInfo /\ jsonDevice_ = DeviceJson(DeviceInfo)))
  /\ [][(DeviceAttempt /\ outcome'[1] = "failed") =>
          /\ ~deviceUpdated'
          /\ UNCHANGED <<device_, jsonDevice_>>]_vars
  /\ [][(DeviceAttempt /\ running) =>
          IF deviceUpdated
            THEN outcome'[1] = "cached" /\ ppc' = "result" /\ result'
            ELSE \/ outcome'[1] = "failed" /\ ppc' = "result" /\ ~result'
                 \/ ppc' = "commit" /\ newDevice' = DeviceInfo]_vars

\* The identity getters succeed in a tick after the one that committed the
\* values, whose own device update had therefore failed.
C35_Witness ==
  /\ ppc = "commit" /\ entry = 1
  /\ ~deviceUpdated /\ device_ = DefaultDevice
  /\ jsonValues_ # JsonNull


\* ====================================================== consumer removal
\* C36: the message the consumer removes after a successful publish call is
\* the message that call delivered.
C36_PopsWhatWasDelivered ==
  [][(pc = "relock" /\ queue_' # queue_) =>
       (queue_ # << >> /\ Front(queue_) = payload)]_vars


\* C37: the queue is not empty while the consumer has a delivery in progress
\* or is about to take the mutex again, so the removal after a successful
\* delivery takes one element from a non-empty queue; the eviction in
\* publish happens only on a full, hence non-empty, queue and is followed by
\* the append; the queue never exceeds its capacity.
C37_NoRemovalFromEmpty ==
  /\ [](pc \in {"publishing", "relock"} => queue_ # << >>)
  /\ [][(pc = "relock" /\ pc' # pc /\ rc = "success") =>
          (queue_ # << >> /\ Len(queue_') = Len(queue_) - 1)]_vars
  /\ [][(PublishStep /\ Len(queue_) >= queueSize) =>
          (queue_ # << >> /\ Len(queue_') = Len(queue_))]_vars
  /\ [](queueSize >= 1 /\ Len(queue_) <= queueSize)

\* The message in flight was evicted during the successful publish call and
\* the consumer is about to remove the head of a queue of capacity 1.
C37_Witness ==
  /\ pc = "relock" /\ rc = "success"
  /\ queueSize = 1
  /\ payload \notin Range(queue_)
  /\ queue_ # << >>


\* ====================================================== callback slots
\* The run loop and the registrations at the grain of their accesses to a
\* callback slot.  cbMutex_ holds the name of a channel while main is inside
\* the set...Callback of that channel.

\* lines 341-354: set...Callback takes cbMutex_.
SlotSetLock ==
  /\ cbMutex_ = "free"
  /\ \E ch \in {"device", "values", "events"} \ callbacks : cbMutex_' = ch
  /\ UNCHANGED <<modbusConnected, ppc, entry, result, json, updLocals,
                 snapshots, valuesAtStart, deviceUpdated, lastEventsHash_,
                 callbacks, tickLog, notice>>
  /\ PollerKeeps

\* lines 343, 348, 353: the slot is move-assigned and the lock released.
SlotSetStore ==
  /\ cbMutex_ \in {"device", "values", "events"}
  /\ callbacks' = callbacks \cup {cbMutex_}
  /\ cbMutex_' = "free"
  /\ UNCHANGED <<modbusConnected, ppc, entry, result, json, updLocals,
                 snapshots, valuesAtStart, deviceUpdated, lastEventsHash_,
                 tickLog, notice>>
  /\ PollerKeeps

\* line 316: what if (!*e.callbackPtr) can read: the slot, or either value
\* while the slot is being assigned (the read is not ordered with the write).
SlotRead(e) ==
  IF cbMutex_ = Channels[e] THEN {TRUE, FALSE} ELSE {Channels[e] \in callbacks}

\* lines 308-317: the result test and the test of the slot, without
\* cbMutex_.
SlotCheckResult ==
  /\ ppc = "result"
  /\ modbusConnected' = ConnectedAfter(result, modbusConnected)
  /\ \E registered \in SlotRead(entry) :
       IF Dispatches(result, registered)
         THEN /\ ppc' = "lockjson"
              /\ UNCHANGED entry
         ELSE /\ ppc' = AfterEntry(result, entry)
              /\ entry' = IF ppc' = "update" THEN entry + 1 ELSE entry
  /\ regs' = 0 /\ getterIdx' = 1 /\ newValues' = DefaultValues
  /\ newEvents' = DefaultEvents /\ newDevice' = DefaultDevice
  /\ result' = TRUE /\ valuesAtStart' = <<DefaultValues, JsonNull>>
  /\ staleResult' = FALSE
  /\ UNCHANGED <<json, snapshots, deviceUpdated, lastEventsHash_, callbacks,
                 cbMutex_, outcome, sent, deviceSent, eventsLogged, notice>>
  /\ PollerKeeps

\* lines 319-323: the document is copied under cbMutex_.
SlotGetJson ==
  /\ ppc = "lockjson"
  /\ cbMutex_ = "free"
  /\ json' = GetJson(entry)
  /\ ppc' = "callback"
  /\ UNCHANGED <<modbusConnected, entry, result, updLocals, snapshots,
                 valuesAtStart, deviceUpdated, lastEventsHash_, callbacks,
                 cbMutex_, tickLog, notice>>
  /\ PollerKeeps

SlotNext ==
  \/ GwConnect \/ GwDisconnect \/ GwError \/ Shutdown
  \/ SlotSetLock \/ SlotSetStore
  \/ PLoopTest \/ PTickTest
  \/ UpdateDevice \/ DeviceCommit \/ DeviceCommitRecord
  \/ ValuesBegin \/ ValuesGetter \/ ValuesCommit \/ ValuesCommitRecord
  \/ UpdateEvents \/ EventsCommit \/ EventsCommitRecord
  \/ SlotCheckResult \/ SlotGetJson \/ InvokeCallback \/ TickEnd
  \/ IntervalWait \/ IntervalWake

SlotSpec == PollerInit /\ [][SlotNext]_vars

\* C38: the run loop tests the callback slot of an entry only while main is
\* not inside the registration of that slot.
C38_SlotsExclusive ==
  [][(ppc = "result" /\ result /\ ppc' # ppc) =>
       cbMutex_ # Channels[entry]]_vars


\* ====================================================== availability
\* The poller once main has registered the three channel callbacks and the
\* availability callback, before the inverter's first notification.
AvailInit ==
  /\ Constructed /\ queueSize = 1
  /\ callbacks = {"device", "values", "events"}
  /\ availabilityCallback_ = TRUE

AvailNext ==
  \/ GwConnect \/ GwDisconnect \/ GwError \/ Shutdown
  \/ RunLoop
  \/ MDtorNotifyAll \/ MDtorJoin

AvailSpec == AvailInit /\ [][AvailNext]_vars

\* C39: while the worker thread sleeps in its interval wait, the value the
\* availability callback was last called with is "connected" exactly if
\* connected_ is true.
C39_AvailabilityFollows ==
  ppc = "sleep" => (modbusConnected <=> available = "connected")


\* ====================================================== teardown in main
\* main (part_005 lines 470-495) declares the ModbusMaster before the
\* MqttClient, so ~MqttClient runs first and ~ModbusMaster, which joins the
\* worker thread, only after it.  The registered callbacks call
\* mqtt.publish.  The broker is never reached, so the consumer stays in its
\* first wait until shutdown.

\* part_003 line 326: if (handler_.isRunning()), read before the call.
InvokeTest ==
  /\ ppc = "callback"
  /\ IF InvokeGuard(running)
       THEN /\ ppc' = "invoke"
            /\ UNCHANGED <<json, entry>>
       ELSE /\ json' = NoDoc
            /\ ppc' = AfterEntry(TRUE, entry)
            /\ entry' = IF ppc' = "update" THEN entry + 1 ELSE entry
  /\ UNCHANGED <<modbusConnected, result, updLocals, snapshots,
                 valuesAtStart, deviceUpdated, lastEventsHash_, callbacks,
                 cbMutex_, tickLog, notice>>
  /\ PollerKeeps

\* part_003 line 327 and part_005 lines 477-485: the callback runs
\* mqtt.publish (part_003 lines 73-98) on the worker thread.  Once
\* ~MqttClient has returned the object is gone and the call may or may not
\* leave a trace in what was its queue.
InvokePublish ==
  /\ ppc = "invoke"
  /\ nextMsg <= MaxMsgs
  /\ mutex_ = "free"
  /\ \/ /\ queue_' = PushDropOldest(queue_, queueSize, nextMsg)
        /\ droppedCount_' = CountDrop(queue_, queueSize, droppedCount_)
     \/ /\ dtor = "joined"
        /\ UNCHANGED <<queue_, droppedCount_>>
  /\ pc' = NotifyOne(pc)
  /\ nextMsg' = nextMsg + 1
  /\ sent' = [sent EXCEPT ![entry] = json]
  /\ deviceSent' = (deviceSent \/ entry = 1)
  /\ json' = NoDoc
  /\ ppc' = AfterEntry(TRUE, entry)
  /\ entry' = IF ppc' = "update" THEN entry + 1 ELSE entry
  /\ UNCHANGED <<modbusConnected, result, updLocals, snapshots,
                 valuesAtStart, deviceUpdated, lastEventsHash_, callbacks,
                 cbMutex_, outcome, staleResult, eventsLogged, notice>>
  /\ UNCHANGED <<queueSize, connected_, mutex_, payload, rc, delivered, dtor,
                 running, mdtor, availVars>>

\* part_005 line 495: the closing brace of main destroys master after mqtt.
MainDestroysMaster == dtor = "joined" /\ MDtorNotifyAll

TeardownNext ==
  \/ GwConnect \/ Shutdown
  \/ LoopTest \/ Lock
  \/ Wait1Pred \/ Wait1Block \/ Wait1Spurious \/ Wait1Relock \/ Check1
  \/ DtorNotifyAll \/ DtorJoin
  \/ MainDestroysMaster \/ MDtorJoin
  \/ PLoopTest \/ PTickTest
  \/ UpdateDevice \/ DeviceCommit \/ DeviceCommitRecord
  \/ ValuesBegin \/ ValuesGetter \/ ValuesCommit \/ ValuesCommitRecord
  \/ UpdateEvents \/ EventsCommit \/ EventsCommitRecord
  \/ CheckResult \/ InvokeTest \/ InvokePublish \/ TickEnd
  \/ IntervalWait \/ IntervalWake

TeardownSpec == PollerLiveInit /\ [][TeardownNext]_vars

\* C40: the worker thread of the poller invokes a registered callback only
\* while the destructor of the MqttClient has not started.
C40_NoInvokeAfterSinkTeardown ==
  [][(ppc = "invoke" /\ ppc' # ppc) => dtor = "alive"]_vars

====
